---- MODULE Spec2Model ----
(***************************************************************************)
(* Model of the module/lesson traversal in main() of weiban_spider.py      *)
(* (lines 345-862): the loop over course modules, the inner loop that      *)
(* repeatedly runs the first lesson whose class does not read as passed,   *)
(* and the two exception handlers around them.                             *)
(*                                                                         *)
(* The browser page is the environment.  What the script reads from it is  *)
(* either kept in the page variables (view, expanded, items) or drawn with *)
(* \E at the moment the script reads it; every awaited browser call may    *)
(* raise.  Texts are sequences of one-character strings, so that strip,    *)
(* split, int and the substring test are computed, not assumed.            *)
(***************************************************************************)
EXTENDS Integers, Sequences, FiniteSets, TLC

\* ---------------------------------------------------------------- bounds
MaxModules == 2
MaxLessons == 2
MaxCount == 2
MaxTextLen == 4
MaxFrames == 3

\* ------------------------------------------------------- text primitives
Digits == {"0", "1", "2"}
Alphabet == Digits \cup {"/", " ", "x", "-"}

DigitVal(c) == CASE c = "0" -> 0 [] c = "1" -> 1 [] c = "2" -> 2 [] OTHER -> 0

RECURSIVE TextsOfLen(_)
TextsOfLen(n) ==
  IF n = 0 THEN {<<>>}
  ELSE {Append(t, c) : t \in TextsOfLen(n - 1), c \in Alphabet}

AllTexts == UNION {TextsOfLen(n) : n \in 0..MaxTextLen}

\* str.strip(): leading and trailing whitespace removed
LStrip[s \in Seq(Alphabet)] ==
  IF s # <<>> /\ Head(s) = " " THEN LStrip[Tail(s)] ELSE s

RStrip[s \in Seq(Alphabet)] ==
  IF s # <<>> /\ s[Len(s)] = " " THEN RStrip[SubSeq(s, 1, Len(s) - 1)] ELSE s

Strip(s) == RStrip[LStrip[s]]

\* '/' in s
HasSlash(s) == \E i \in 1..Len(s) : s[i] = "/"

\* s.split('/'): the pieces between the separators, empty pieces kept
SplitSlash[s \in Seq(Alphabet)] ==
  IF ~HasSlash(s) THEN <<s>>
  ELSE LET i == CHOOSE k \in 1..Len(s) :
                  s[k] = "/" /\ \A j \in 1..(k - 1) : s[j] # "/"
       IN <<SubSeq(s, 1, i - 1)>> \o SplitSlash[SubSeq(s, i + 1, Len(s))]

\* value of a non-empty digit string, most significant digit first
DecimalValue[d \in Seq(Digits)] ==
  IF d = <<>> THEN 0
  ELSE 10 * DecimalValue[SubSeq(d, 1, Len(d) - 1)] + DigitVal(d[Len(d)])

IsDigits(d) == d # <<>> /\ \A i \in 1..Len(d) : d[i] \in Digits

\* int(s): surrounding whitespace ignored, optional sign, then digits only;
\* anything else raises ValueError (ok = FALSE)
PyInt(s) ==
  LET t == Strip(s)
      neg == t # <<>> /\ Head(t) = "-"
      d == IF neg THEN Tail(t) ELSE t
  IN IF IsDigits(d)
     THEN [ok |-> TRUE, val |-> IF neg THEN 0 - DecimalValue[d] ELSE DecimalValue[d]]
     ELSE [ok |-> FALSE, val |-> 0]

\* variant of the parse, for comparison: the two numbers taken the other way
\* round
ParseProgressSwapped(text) ==
  LET t == Strip(text) IN
  IF HasSlash(t)
  THEN LET parts == SplitSlash[t] IN
       IF Len(parts) = 2 /\ PyInt(parts[1]).ok /\ PyInt(parts[2]).ok
       THEN [ok |-> TRUE, finished |-> PyInt(parts[2]).val,
             total |-> PyInt(parts[1]).val]
       ELSE [ok |-> FALSE, finished |-> 0, total |-> 0]
  ELSE [ok |-> TRUE, finished |-> 0, total |-> 0]

\* lines 381-388: the progress text "finished/total"
ParseProgress(text) ==
  LET t == Strip(text) IN
  IF HasSlash(t)
  THEN LET parts == SplitSlash[t] IN
       IF Len(parts) # 2
       THEN [ok |-> FALSE, finished |-> 0, total |-> 0]
       ELSE LET f == PyInt(parts[1]) IN
            IF ~f.ok
            THEN [ok |-> FALSE, finished |-> 0, total |-> 0]
            ELSE LET g == PyInt(parts[2]) IN
                 IF ~g.ok
                 THEN [ok |-> FALSE, finished |-> 0, total |-> 0]
                 ELSE [ok |-> TRUE, finished |-> f.val, total |-> g.val]
  ELSE [ok |-> TRUE, finished |-> 0, total |-> 0]

\* line 379: the text used when the module has no .count element
DefaultCountText == <<"0", "/", "0">>

\* the progress texts the page shows in the traversal
ProgressTexts ==
  { <<"0", "/", "0">>, <<"0", "/", "1">>, <<"1", "/", "1">>,
    <<"2", "/", "1">>, <<>>, <<"1", "/", "x">> }

\* ------------------------------------------------------- lesson classes
PassedText == <<"p", "a", "s", "s", "e", "d">>
ItemText == <<"i", "t", "e", "m">>
ClassNone == <<>>
ClassPlain == ItemText
ClassPassed == ItemText \o <<" ">> \o PassedText
ClassUnpassed == ItemText \o <<" ", "u", "n">> \o PassedText
ItemClasses == {ClassNone, ClassPlain, ClassPassed, ClassUnpassed}
\* the class attributes of the lessons on the page
PageClasses == {ClassPlain, ClassPassed, ClassUnpassed}

\* 'passed' in item_class: a substring test on the whole attribute
ContainsPassed(cls) ==
  \E i \in 1..Len(cls) :
    i + Len(PassedText) - 1 <= Len(cls)
    /\ SubSeq(cls, i, i + Len(PassedText) - 1) = PassedText

\* line 457: is_passed
IsPassed(cls) == IF cls # <<>> THEN ContainsPassed(cls) ELSE FALSE

\* variants of the scan, for comparison: the first lesson whatever its class,
\* and the last lesson that does not read as passed
FirstLesson(its) == IF its # <<>> THEN 1 ELSE 0

LastIncomplete(its) ==
  IF \E p \in 1..Len(its) : ~IsPassed(its[p])
  THEN CHOOSE p \in 1..Len(its) :
         ~IsPassed(its[p]) /\ \A q \in (p + 1)..Len(its) : IsPassed(its[q])
  ELSE 0

\* lines 450-465: 1-based position of the first lesson that does not read
\* as passed, 0 when there is none
FirstIncomplete(its) ==
  IF \E p \in 1..Len(its) : ~IsPassed(its[p])
  THEN CHOOSE p \in 1..Len(its) :
         ~IsPassed(its[p]) /\ \A q \in 1..(p - 1) : IsPassed(its[q])
  ELSE 0

RECURSIVE ListsOfLen(_)
ListsOfLen(n) ==
  IF n = 0 THEN {<<>>}
  ELSE {Append(l, c) : l \in ListsOfLen(n - 1), c \in PageClasses}

ItemLists == UNION {ListsOfLen(n) : n \in 0..MaxLessons}

\* ---------------------------------------------------------------- frames
\* A url is a sequence of pieces; a pattern searched in it is a sequence of
\* pieces too, found when it occurs as a contiguous run.
UrlEmpty == <<>>
UrlBlank == <<"about:blank">>
UrlScript == <<"javascript:", "void(0)">>
UrlScriptMcwk == <<"javascript:", "mcwk", ".mycourse.cn">>
UrlPage == <<"https://", "weiban", ".mycourse.cn", "/", "list">>
UrlHostCourse == <<"https://", "weiban", ".mycourse.cn", "/", "course", "/", "42">>
UrlCdn == <<"https://", "cdn.example", "/", "x">>
UrlCourse == <<"https://", "content.example", "/", "course", "/", "42">>
UrlCourseUpper == <<"https://", "content.example", "/", "COURSE", "/", "42">>
UrlCourseLast == <<"https://", "content.example", "/", "course">>
UrlMcwk == <<"https://", "mcwk", ".mycourse.cn", "/", "course", "/", "A">>

\* spider.page.url while the lesson is open
PageUrls == {UrlPage, UrlHostCourse}
\* urls of the frames below the main frame
FrameUrls == {UrlEmpty, UrlBlank, UrlScript, UrlScriptMcwk, UrlHostCourse,
              UrlCdn, UrlCourse, UrlCourseUpper, UrlCourseLast, UrlMcwk}

RECURSIVE UrlListsOfLen(_)
UrlListsOfLen(n) ==
  IF n = 0 THEN {<<>>}
  ELSE {Append(l, u) : l \in UrlListsOfLen(n - 1), u \in FrameUrls}

FrameLists == UNION {UrlListsOfLen(n) : n \in 0..MaxFrames}
\* the frame lists used in the traversal
SampleFrameLists == {<<>>, <<UrlBlank, UrlMcwk>>}

McwkPattern == <<"mcwk", ".mycourse.cn">>
WeibanPattern == <<"weiban", ".mycourse.cn">>
ScriptPattern == <<"javascript:">>
CoursePattern == <<"/", "course", "/">>

\* pattern in url
Contains(url, pat) ==
  \E i \in 1..Len(url) :
    i + Len(pat) - 1 <= Len(url) /\ SubSeq(url, i, i + Len(pat) - 1) = pat

\* url.lower()
LowerPiece(t) == IF t = "COURSE" THEN "course" ELSE t
Lower(url) == [i \in 1..Len(url) |-> LowerPiece(url[i])]

\* variant of the test, for comparison: only the empty address is passed over
ExcludedEmptyOnly(url) == url = <<>>

\* lines 545, 558: not frame_url or frame_url == 'about:blank' or
\* 'javascript:' in frame_url
Excluded(url) == url = <<>> \/ url = UrlBlank \/ Contains(url, ScriptPattern)

\* line 550
DomainPass(url) == ~Excluded(url) /\ Contains(url, McwkPattern)
\* lines 558-566
PathPass(url) ==
  /\ ~Excluded(url)
  /\ ~Contains(url, WeibanPattern)
  /\ Contains(Lower(url), CoursePattern)
\* line 576
LastPass(url, purl) ==
  url # <<>> /\ url # purl /\ ~Contains(url, ScriptPattern) /\ url # UrlBlank

\* position of the first frame of fs that satisfies Ok, 0 when there is none
FirstFrame(fs, pass) ==
  LET hits == {i \in 1..Len(fs) : pass[fs[i]]} IN
  IF hits = {} THEN 0 ELSE CHOOSE i \in hits : \A j \in hits : i <= j

\* the three tests as tables over the urls of the list
DomainTest(fs) == [u \in {fs[i] : i \in 1..Len(fs)} |-> DomainPass(u)]
PathTest(fs) == [u \in {fs[i] : i \in 1..Len(fs)} |-> PathPass(u)]
LastTest(fs, purl) == [u \in {fs[i] : i \in 1..Len(fs)} |-> LastPass(u, purl)]

NoFrame == [kind |-> "none", pos |-> 0]
MainFrame == [kind |-> "main", pos |-> 0]
FrameAt(i) == [kind |-> "frame", pos |-> i]

\* variant of the resolver, for comparison: no frame when no pass finds one
ResolveNoFallback(fs, purl) ==
  IF FirstFrame(fs, DomainTest(fs)) # 0 THEN FrameAt(FirstFrame(fs, DomainTest(fs)))
  ELSE IF FirstFrame(fs, PathTest(fs)) # 0 THEN FrameAt(FirstFrame(fs, PathTest(fs)))
  ELSE IF FirstFrame(fs, LastTest(fs, purl)) # 0 THEN FrameAt(FirstFrame(fs, LastTest(fs, purl)))
  ELSE NoFrame

\* variants of the resolver, for comparison: the path pass before the
\* domain pass, and no path pass at all
ResolvePathFirst(fs, purl) ==
  IF FirstFrame(fs, PathTest(fs)) # 0 THEN FrameAt(FirstFrame(fs, PathTest(fs)))
  ELSE IF FirstFrame(fs, DomainTest(fs)) # 0 THEN FrameAt(FirstFrame(fs, DomainTest(fs)))
  ELSE IF FirstFrame(fs, LastTest(fs, purl)) # 0 THEN FrameAt(FirstFrame(fs, LastTest(fs, purl)))
  ELSE MainFrame

ResolveNoPath(fs, purl) ==
  IF FirstFrame(fs, DomainTest(fs)) # 0 THEN FrameAt(FirstFrame(fs, DomainTest(fs)))
  ELSE IF FirstFrame(fs, LastTest(fs, purl)) # 0 THEN FrameAt(FirstFrame(fs, LastTest(fs, purl)))
  ELSE MainFrame

\* lines 542-590: the three passes over the frames, then the main frame
ResolveFrame(fs, purl) ==
  IF FirstFrame(fs, DomainTest(fs)) # 0 THEN FrameAt(FirstFrame(fs, DomainTest(fs)))
  ELSE IF FirstFrame(fs, PathTest(fs)) # 0 THEN FrameAt(FirstFrame(fs, PathTest(fs)))
  ELSE IF FirstFrame(fs, LastTest(fs, purl)) # 0 THEN FrameAt(FirstFrame(fs, LastTest(fs, purl)))
  ELSE MainFrame

\* ------------------------------------------------------------- variables
VARIABLES
  pc,               \* position of main() in the traversal
  module_index, total_modules, completed_count,
  count_elem, count_text, finished, total,
  title_button, item_position,
  iframe, is_video_course, start_btn_clicked, func_exists,
  view,             \* page: "list" (module listing shown) or "lesson"
  expanded, items,  \* page: the module at module_index
  starts,           \* history: times the module at module_index was begun (the loop body
                    \* entered for it and not left by break)
  visited,          \* history: module positions that were begun
  clean,            \* history: every lesson run of the module so far completed its lesson
  runs,             \* history, kept while clean: activations of each lesson of the module
  items0,           \* history, kept while clean: lessons that read as passed when the module was reached
  ok_runs,          \* history: lesson runs whose finishWxCourse() call returned
  trig_failed_at,   \* history: lesson whose last run found no start button
  wifi,             \* page: where the frame queried at line 620 holds the wifi hint
  tried,            \* history: start-button strategies attempted in the lesson run
  frames, page_url, \* page: spider.page.frames (their urls) and spider.page.url
  module_stale,     \* history: the page changed since `module` was fetched
  title_stale,      \* history: the page changed since `title_button` was fetched
  func_checks,      \* history: finishWxCourse presence checks made in the lesson run
  clicks,           \* history: outcomes of the click methods tried on the lesson
  triggers,         \* history: outcomes of the start-button strategies tried in the run
  back,             \* history: return actions performed in the lesson run
  wait_timed_out,   \* history: the bounded wait just made ran into its timeout
  closes,           \* history: calls of spider.close()
  exit_way          \* history: how main() was left

progVars == <<pc, module_index, total_modules, completed_count, count_elem,
              count_text, finished, total, title_button, item_position,
              iframe, is_video_course, start_btn_clicked, func_exists>>
pageVars == <<view, expanded, items>>
histVars == <<starts, visited, runs, items0, clean, ok_runs, trig_failed_at>>
kindVars == <<wifi, tried>>
frameVars == <<frames, page_url>>
staleVars == <<module_stale, title_stale>>
stepVars == <<kindVars, frameVars, staleVars, func_checks, clicks>>
runVars == <<triggers, back, wait_timed_out>>
driverVars == <<closes, exit_way>>
\* the locals of the traversal
localVars == <<module_index, total_modules, completed_count, count_elem,
               count_text, finished, total, title_button, item_position,
               iframe, is_video_course, start_btn_clicked, func_exists>>
vars == <<progVars, pageVars, histVars, stepVars, runVars, driverVars>>

\* ------------------------------------------------------------ the page
\* query_selector_all('.van-collapse-item'): the module listing exists on
\* the list page only; while a lesson is open the query finds nothing
ListingLen == IF view = "list" THEN total_modules ELSE 0

\* the page's module at position idx, read for the first time: its expanded
\* state and its lessons are whatever the page holds
EnterModule(idx) ==
  /\ IF idx < total_modules
     THEN \E e \in BOOLEAN, its \in ItemLists :
            /\ expanded' = e
            /\ items' = its
            /\ items0' = [p \in 1..Len(its) |-> IsPassed(its[p])]
            /\ runs' = [p \in 1..Len(its) |-> 0]
     ELSE /\ expanded' = FALSE
          /\ items' = <<>>
          /\ items0' = <<>>
          /\ runs' = <<>>
  /\ starts' = 0
  /\ clean' = TRUE
  /\ trig_failed_at' = 0

\* ------------------------------------------------------ try/except nesting
ModuleScope == {"ModuleLoop", "ReadCount", "ParseCount", "CheckComplete",
                "ExpandModule", "QueryLessons"}
LessonScope == {"LessonLoop", "EnsureExpanded", "ScanLessons", "Scroll",
                "ClickLesson", "WaitDom", "FindFrame", "WaitIdle", "Settle",
                "Classify", "Trigger", "CheckFunc", "Invoke", "DebugInfo",
                "ReturnToList", "Requery", "Cooldown"}

\* the except clause an exception raised at position p reaches: line 831 for
\* the body of the lesson loop, line 852 for the rest of the module loop body
Handler(p) == IF p \in LessonScope THEN "LessonExcept" ELSE "ModuleExcept"

\* a lesson run of the module did not complete its lesson: the per-lesson
\* history of the module is no longer kept
Unclean ==
  /\ clean' = FALSE
  /\ runs' = [p \in DOMAIN runs |-> 0]
  /\ items0' = [p \in DOMAIN items0 |-> FALSE]

\* The locals of one lesson run (item_position ... func_exists) are assigned
\* in every run before they are read, and so are the progress locals in
\* every pass of the module loop: the model drops each value after the last
\* statement that can read it (is_video_course and start_btn_clicked after
\* line 706, item_position, iframe and func_exists after line 750, the rest
\* at the end of the run).
EndRun ==
  /\ item_position' = -1
  /\ iframe' = NoFrame
  /\ is_video_course' = FALSE
  /\ start_btn_clicked' = FALSE
  /\ func_exists' = FALSE

\* ------------------------------------------------------------------ Init
Init ==
  /\ pc = "ModuleLoop"
  /\ module_index = 0
  /\ total_modules \in 1..MaxModules
  /\ completed_count = 0
  /\ count_elem = FALSE
  /\ count_text = <<>>
  /\ finished = 0
  /\ total = 0
  /\ title_button = FALSE
  /\ item_position = -1
  /\ iframe = NoFrame
  /\ is_video_course = FALSE
  /\ start_btn_clicked = FALSE
  /\ func_exists = FALSE
  /\ view = "list"
  /\ expanded \in BOOLEAN
  /\ items \in ItemLists
  /\ items0 = [p \in 1..Len(items) |-> IsPassed(items[p])]
  /\ runs = [p \in 1..Len(items) |-> 0]
  /\ starts = 0
  /\ visited = {}
  /\ clean = TRUE
  /\ ok_runs = 0
  /\ trig_failed_at = 0
  /\ wifi = "absent"
  /\ tried = 0
  /\ frames = <<>>
  /\ page_url = <<>>
  /\ module_stale = FALSE
  /\ title_stale = FALSE
  /\ func_checks = 0
  /\ clicks = <<>>
  /\ triggers = <<>>
  /\ back = <<>>
  /\ wait_timed_out = FALSE
  /\ closes = 0
  /\ exit_way = "none"

\* variant of the guard, for comparison: off by one
InRangeOffByOne(idx, len) == idx <= len

\* lines 367, 423, 442, 796: the test made on the fresh listing before
\* modules[module_index] is read
InRange(idx, len) == idx < len

\* --------------------------------------------------------- module loop
\* lines 362-371: loop test, fresh module listing, index guard
ModuleLoopTest ==
  /\ pc = "ModuleLoop"
  /\ \/ /\ module_index >= total_modules
        /\ pc' = "Done"
        /\ UNCHANGED <<starts, visited>>
     \/ /\ module_index < total_modules
        /\ ~InRange(module_index, ListingLen)
        /\ pc' = "Done"
        /\ UNCHANGED <<starts, visited>>
     \/ /\ module_index < total_modules
        /\ \/ pc' = Handler(pc)
           \/ /\ InRange(module_index, ListingLen)
              /\ pc' = "ReadCount"
        /\ starts' = IF starts < 2 THEN starts + 1 ELSE starts
        /\ visited' = visited \cup {module_index}
  /\ UNCHANGED <<module_index, total_modules, completed_count, count_elem,
                 count_text, finished, total, title_button, item_position,
                 iframe, is_video_course, start_btn_clicked, func_exists>>
  /\ UNCHANGED pageVars
  /\ UNCHANGED <<runs, items0, clean, ok_runs, trig_failed_at>>
  /\ module_stale' = FALSE
  /\ UNCHANGED title_stale
  /\ UNCHANGED <<kindVars, frameVars, func_checks, clicks>>
  /\ UNCHANGED runVars
  /\ UNCHANGED driverVars

\* lines 373-379: the title and the progress text of the module
ReadCount(texts) ==
  /\ pc = "ReadCount"
  /\ \/ /\ pc' = Handler(pc)
        /\ UNCHANGED <<count_elem, count_text>>
     \/ /\ count_elem' = FALSE
        /\ count_text' = DefaultCountText
        /\ pc' = "ParseCount"
     \/ \E t \in texts :
          /\ count_elem' = TRUE
          /\ count_text' = t
          /\ pc' = "ParseCount"
  /\ UNCHANGED <<module_index, total_modules, completed_count, finished,
                 total, title_button, item_position, iframe, is_video_course,
                 start_btn_clicked, func_exists>>
  /\ UNCHANGED <<pageVars, histVars>>
  /\ UNCHANGED stepVars
  /\ UNCHANGED runVars
  /\ UNCHANGED driverVars

\* lines 381-388: strip, then split and convert, or the (0, 0) default
ParseCount ==
  /\ pc = "ParseCount"
  /\ \E r \in {ParseProgress(count_text)} :
       \/ /\ r.ok
          /\ finished' = r.finished
          /\ total' = r.total
          /\ pc' = "CheckComplete"
       \/ /\ ~r.ok
          /\ UNCHANGED <<finished, total>>
          /\ pc' = Handler(pc)
  /\ count_text' = Strip(count_text)
  /\ UNCHANGED <<module_index, total_modules, completed_count, count_elem,
                 title_button, item_position, iframe, is_video_course,
                 start_btn_clicked, func_exists>>
  /\ UNCHANGED <<pageVars, histVars>>
  /\ UNCHANGED stepVars
  /\ UNCHANGED runVars
  /\ UNCHANGED driverVars

\* variant of the test, for comparison: finished must exceed total
ModuleCompleteStrict(f, t) == f > t /\ t > 0

\* variant of the test, for comparison: without the total > 0 conjunct
ModuleCompleteNoGuard(f, t) == f >= t

\* line 395: the test that skips a module
ModuleComplete(f, t) == f >= t /\ t > 0

\* lines 394-400
CheckComplete ==
  /\ pc = "CheckComplete"
  /\ IF ModuleComplete(finished, total)
     THEN /\ module_index' = module_index + 1
          /\ EnterModule(module_index + 1)
          /\ pc' = "ModuleLoop"
     ELSE /\ pc' = "ExpandModule"
          /\ UNCHANGED <<module_index, expanded, items, items0, runs, starts,
                         clean, trig_failed_at>>
  /\ count_elem' = FALSE
  /\ count_text' = <<>>
  /\ UNCHANGED <<total_modules, completed_count, finished, total,
                 title_button, item_position, iframe, is_video_course,
                 start_btn_clicked, func_exists>>
  /\ UNCHANGED <<view, visited, ok_runs>>
  /\ UNCHANGED stepVars
  /\ UNCHANGED runVars
  /\ UNCHANGED driverVars

\* lines 402-407: click the module title (the click toggles the module)
ExpandModule ==
  /\ pc = "ExpandModule"
  /\ \/ /\ pc' = Handler(pc)
        /\ UNCHANGED <<title_button, expanded, staleVars>>
     \/ /\ title_button' = FALSE
        /\ pc' = "QueryLessons"
        /\ title_stale' = FALSE
        /\ UNCHANGED <<expanded, module_stale>>
     \/ /\ title_button' = TRUE
        /\ pc' = Handler(pc)
        /\ title_stale' = FALSE
        /\ UNCHANGED <<expanded, module_stale>>
     \/ /\ title_button' = TRUE
        /\ expanded' = ~expanded
        /\ title_stale' = TRUE
        /\ module_stale' = TRUE
        /\ pc' = "QueryLessons"
  /\ UNCHANGED <<module_index, total_modules, completed_count, count_elem,
                 count_text, finished, total, item_position, iframe,
                 is_video_course, start_btn_clicked, func_exists>>
  /\ UNCHANGED <<view, items, histVars>>
  /\ UNCHANGED <<kindVars, frameVars, func_checks, clicks>>
  /\ UNCHANGED runVars
  /\ UNCHANGED driverVars

\* lines 409-416: the first lesson query; an empty result takes `continue`
QueryLessons ==
  /\ pc = "QueryLessons"
  /\ \/ /\ pc' = Handler(pc)
        /\ UNCHANGED <<finished, total>>
     \/ /\ items = <<>>
        /\ pc' = "ModuleLoop"
        /\ UNCHANGED <<finished, total>>
     \/ /\ items # <<>>
        /\ pc' = "LessonLoop"
        /\ finished' = 0
        /\ total' = 0
  /\ UNCHANGED <<module_index, total_modules, completed_count, count_elem,
                 count_text, title_button, item_position,
                 iframe, is_video_course, start_btn_clicked, func_exists>>
  /\ UNCHANGED <<pageVars, histVars>>
  /\ UNCHANGED stepVars
  /\ UNCHANGED runVars
  /\ UNCHANGED driverVars

\* variant of the handler, for comparison: without the increment of line 857
ModuleExceptStuck ==
  /\ pc = "ModuleExcept"
  /\ pc' = "ModuleLoop"
  /\ UNCHANGED <<module_index, total_modules, completed_count, count_elem,
                 count_text, finished, total, title_button, item_position,
                 iframe, is_video_course, start_btn_clicked, func_exists>>
  /\ UNCHANGED <<pageVars, histVars>>
  /\ UNCHANGED stepVars
  /\ UNCHANGED runVars
  /\ UNCHANGED driverVars

\* lines 852-858: module-level handler, advance to the next module
ModuleExcept ==
  /\ pc = "ModuleExcept"
  /\ module_index' = module_index + 1
  /\ EnterModule(module_index + 1)
  /\ pc' = "ModuleLoop"
  /\ UNCHANGED <<total_modules, completed_count, count_elem, count_text,
                 finished, total, title_button, item_position, iframe,
                 is_video_course, start_btn_clicked, func_exists>>
  /\ UNCHANGED <<view, visited, ok_runs>>
  /\ module_stale' = FALSE
  /\ title_stale' = FALSE
  /\ UNCHANGED <<kindVars, frameVars, func_checks, clicks>>
  /\ UNCHANGED runVars
  /\ UNCHANGED driverVars

\* --------------------------------------------------------- lesson loop
\* lines 419-426: fresh module listing and index guard of the lesson loop
LessonLoopTop ==
  /\ pc = "LessonLoop"
  /\ \/ /\ pc' = Handler(pc)
        /\ UNCHANGED module_stale
     \/ /\ ~InRange(module_index, ListingLen)
        /\ pc' = "Collapse"
        /\ UNCHANGED module_stale
     \/ /\ InRange(module_index, ListingLen)
        /\ pc' = "EnsureExpanded"
        /\ module_stale' = FALSE
  /\ UNCHANGED <<module_index, total_modules, completed_count, count_elem,
                 count_text, finished, total, title_button, item_position,
                 iframe, is_video_course, start_btn_clicked, func_exists>>
  /\ UNCHANGED <<pageVars, histVars>>
  /\ UNCHANGED title_stale
  /\ UNCHANGED <<kindVars, frameVars, func_checks, clicks>>
  /\ UNCHANGED runVars
  /\ UNCHANGED driverVars

\* lines 428-444: expand the module when its class does not read expanded
EnsureExpanded ==
  /\ pc = "EnsureExpanded"
  /\ \/ /\ pc' = Handler(pc)
        /\ UNCHANGED <<title_button, expanded, staleVars>>
     \/ /\ expanded
        /\ pc' = "ScanLessons"
        /\ UNCHANGED <<title_button, expanded, staleVars>>
     \/ /\ ~expanded
        /\ title_button' = FALSE
        /\ pc' = "ScanLessons"
        /\ title_stale' = FALSE
        /\ UNCHANGED <<expanded, module_stale>>
     \/ /\ ~expanded
        /\ title_button' = TRUE
        /\ pc' = Handler(pc)
        /\ title_stale' = FALSE
        /\ UNCHANGED <<expanded, module_stale>>
     \/ /\ ~expanded
        /\ title_button' = TRUE
        /\ expanded' = TRUE
        /\ title_stale' = TRUE
        /\ \/ pc' = Handler(pc) /\ module_stale' = TRUE
           \/ /\ pc' = IF InRange(module_index, ListingLen)
                       THEN "ScanLessons" ELSE "Collapse"
              /\ module_stale' = ~InRange(module_index, ListingLen)
  /\ UNCHANGED <<module_index, total_modules, completed_count, count_elem,
                 count_text, finished, total, item_position, iframe,
                 is_video_course, start_btn_clicked, func_exists>>
  /\ UNCHANGED <<view, items, histVars>>
  /\ UNCHANGED <<kindVars, frameVars, func_checks, clicks>>
  /\ UNCHANGED runVars
  /\ UNCHANGED driverVars

\* lines 446-470: fresh lesson listing, first lesson not read as passed
ScanLessons ==
  /\ pc = "ScanLessons"
  /\ \/ /\ pc' = Handler(pc)
        /\ UNCHANGED item_position
     \/ /\ FirstIncomplete(items) = 0
        /\ item_position' = -1
        /\ pc' = "Collapse"
     \/ /\ FirstIncomplete(items) # 0
        /\ item_position' = FirstIncomplete(items)
        /\ pc' = "Scroll"
  /\ UNCHANGED <<module_index, total_modules, completed_count, count_elem,
                 count_text, finished, total, title_button, iframe,
                 is_video_course, start_btn_clicked, func_exists>>
  /\ UNCHANGED <<pageVars, histVars>>
  /\ UNCHANGED stepVars
  /\ UNCHANGED runVars
  /\ UNCHANGED driverVars

\* lines 474-483: visibility check and scroll; an error is re-raised (506)
Scroll ==
  /\ pc = "Scroll"
  /\ \/ pc' = Handler(pc)
     \/ pc' = "ClickLesson"
  /\ UNCHANGED <<module_index, total_modules, completed_count, count_elem,
                 count_text, finished, total, title_button, item_position,
                 iframe, is_video_course, start_btn_clicked, func_exists>>
  /\ UNCHANGED <<pageVars, histVars>>
  /\ UNCHANGED stepVars
  /\ UNCHANGED runVars
  /\ UNCHANGED driverVars

\* one method tried on the lesson, with its outcome
Tried(method, ok) == [method |-> method, ok |-> ok]

\* variant of the chain, for comparison: every method is tried
ClickAttemptsAll(r1, r2, r3) ==
  <<Tried("click", r1), Tried("force", r2), Tried("script", r3)>>

\* lines 485-501: the click methods tried on the lesson with their outcomes
\* (r1, r2, r3: whether each would succeed); a method is tried when the one
\* before it raised
ClickAttempts(r1, r2, r3) ==
  IF r1 THEN <<Tried("click", TRUE)>>
  ELSE IF r2 THEN <<Tried("click", FALSE), Tried("force", TRUE)>>
  ELSE <<Tried("click", FALSE), Tried("force", FALSE), Tried("script", r3)>>

\* lines 485-506: click, forced click, script click; the lesson page opens
\* when one of them succeeds, the error is re-raised when all three fail
ClickLesson ==
  /\ pc = "ClickLesson"
  /\ \E r1, r2, r3 \in BOOLEAN :
       LET att == ClickAttempts(r1, r2, r3) IN
       /\ clicks' = att
       /\ IF \E n \in 1..Len(att) : att[n].ok
          THEN /\ view' = "lesson"
               /\ module_stale' = TRUE
               /\ title_stale' = title_button
               /\ runs' = IF clean
                           THEN [runs EXCEPT ![item_position] =
                                   IF @ < 2 THEN @ + 1 ELSE @]
                           ELSE runs
               /\ pc' = "WaitDom"
          ELSE /\ pc' = Handler(pc)
               /\ UNCHANGED <<view, runs, staleVars>>
  /\ UNCHANGED <<module_index, total_modules, completed_count, count_elem,
                 count_text, finished, total, title_button, item_position,
                 iframe, is_video_course, start_btn_clicked, func_exists>>
  /\ UNCHANGED <<expanded, items>>
  /\ UNCHANGED <<starts, visited, items0, clean, ok_runs, trig_failed_at>>
  /\ UNCHANGED <<kindVars, frameVars, func_checks>>
  /\ UNCHANGED runVars
  /\ UNCHANGED driverVars

\* variant of the waits, for comparison: a timeout ends the lesson run
AfterWaitFatal(timed_out, next, handler) == IF timed_out THEN handler ELSE next

\* lines 513-517, 601-605: wait_for_load_state in a try of its own; the
\* except clause prints the timeout and the run goes on to the next statement
AfterWait(timed_out, next, handler) == next

\* lines 508-517: bounded wait for domcontentloaded, a timeout is only logged
WaitDom ==
  /\ pc = "WaitDom"
  /\ \E timed_out \in BOOLEAN :
       /\ wait_timed_out' = timed_out
       /\ pc' = AfterWait(timed_out, "FindFrame", Handler(pc))
  /\ UNCHANGED <<module_index, total_modules, completed_count, count_elem,
                 count_text, finished, total, title_button, item_position,
                 iframe, is_video_course, start_btn_clicked, func_exists>>
  /\ UNCHANGED <<pageVars, histVars>>
  /\ clicks' = <<>>
  /\ UNCHANGED <<kindVars, frameVars, staleVars, func_checks>>
  /\ UNCHANGED <<triggers, back>>
  /\ UNCHANGED driverVars

\* lines 519-594: the frames of the page are read once (531) and the content
\* frame picked by ResolveFrame; the first frame is the main frame, whose url
\* is the page's.  Nothing awaited in the try block but sleep, so the except
\* clause at 582 is not taken.
FindFrame(purls, lists) ==
  /\ pc = "FindFrame"
  /\ \E purl \in purls, rest \in lists :
       /\ page_url' = purl
       /\ frames' = <<purl>> \o rest
       /\ iframe' = ResolveFrame(<<purl>> \o rest, purl)
  /\ pc' = "WaitIdle"
  /\ UNCHANGED <<module_index, total_modules, completed_count, count_elem,
                 count_text, finished, total, title_button, item_position,
                 is_video_course, start_btn_clicked, func_exists>>
  /\ UNCHANGED <<pageVars, histVars>>
  /\ UNCHANGED <<kindVars, staleVars, func_checks, clicks>>
  /\ wait_timed_out' = FALSE
  /\ UNCHANGED <<triggers, back>>
  /\ UNCHANGED driverVars

\* lines 596-605: bounded wait for networkidle, a timeout is only logged
WaitIdle ==
  /\ pc = "WaitIdle"
  /\ \E timed_out \in BOOLEAN :
       /\ wait_timed_out' = timed_out
       /\ pc' = AfterWait(timed_out, "Settle", Handler(pc))
  /\ UNCHANGED <<module_index, total_modules, completed_count, count_elem,
                 count_text, finished, total, title_button, item_position,
                 iframe, is_video_course, start_btn_clicked, func_exists>>
  /\ UNCHANGED <<pageVars, histVars>>
  /\ frames' = <<>>
  /\ page_url' = <<>>
  /\ UNCHANGED <<kindVars, staleVars, func_checks, clicks>>
  /\ UNCHANGED <<triggers, back>>
  /\ UNCHANGED driverVars

\* lines 607-613: fixed wait for the entry animation
Settle ==
  /\ pc = "Settle"
  /\ pc' = "Classify"
  /\ UNCHANGED <<module_index, total_modules, completed_count, count_elem,
                 count_text, finished, total, title_button, item_position,
                 iframe, is_video_course, start_btn_clicked, func_exists>>
  /\ UNCHANGED <<pageVars, histVars>>
  /\ UNCHANGED stepVars
  /\ wait_timed_out' = FALSE
  /\ UNCHANGED <<triggers, back>>
  /\ UNCHANGED driverVars

\* line 620: the places the wifi hint text can be in the frame, and the
\* selector 'p.txt-des:has-text(...)', which finds it in a p.txt-des only
WifiPlaces == {"absent", "p.txt-des", "elsewhere"}
WifiTip(w) == w = "p.txt-des"

\* lines 615-627: video lesson iff the wifi hint is found; an error leaves
\* the lesson classified as interactive
Classify ==
  /\ pc = "Classify"
  /\ \E w \in WifiPlaces, raised \in BOOLEAN :
       /\ wifi' = w
       /\ is_video_course' = (~raised /\ WifiTip(w))
  /\ pc' = "Trigger"
  /\ UNCHANGED <<module_index, total_modules, completed_count, count_elem,
                 count_text, finished, total, title_button, item_position,
                 iframe, start_btn_clicked, func_exists>>
  /\ UNCHANGED <<pageVars, histVars>>
  /\ UNCHANGED <<tried, frameVars, staleVars, func_checks, clicks>>
  /\ UNCHANGED runVars
  /\ UNCHANGED driverVars

\* variant of the chain, for comparison: all four ways are tried, whatever
\* the earlier ones did
TriggerAttemptsAll(r1, r2, r3, r4) ==
  <<Tried(".btn-start", r1), Tried("img[src*=btn-start]", r2),
    Tried(".pri-start-btn", r3), Tried("[class*=start]", r4)>>

\* lines 640-704: the ways to click the start button that are tried, with
\* their outcomes (r1..r4: whether each would find and click the button; the
\* fourth fails when it raises and when it finds no element); a way is tried
\* when the one before it raised
TriggerAttempts(r1, r2, r3, r4) ==
  IF r1 THEN <<Tried(".btn-start", TRUE)>>
  ELSE IF r2
  THEN <<Tried(".btn-start", FALSE), Tried("img[src*=btn-start]", TRUE)>>
  ELSE IF r3
  THEN <<Tried(".btn-start", FALSE), Tried("img[src*=btn-start]", FALSE),
         Tried(".pri-start-btn", TRUE)>>
  ELSE <<Tried(".btn-start", FALSE), Tried("img[src*=btn-start]", FALSE),
         Tried(".pri-start-btn", FALSE), Tried("[class*=start]", r4)>>

\* variant of the step, for comparison: the four ways are tried whatever the
\* kind of the lesson
TriggerAlways ==
  /\ pc = "Trigger"
  /\ \E r1, r2, r3, r4 \in BOOLEAN :
       LET att == TriggerAttempts(r1, r2, r3, r4) IN
       /\ triggers' = att
       /\ tried' = Len(att)
       /\ start_btn_clicked' = att[Len(att)].ok
       /\ trig_failed_at' = IF att[Len(att)].ok THEN 0 ELSE item_position
  /\ pc' = "CheckFunc"
  /\ UNCHANGED <<module_index, total_modules, completed_count, count_elem,
                 count_text, finished, total, title_button, item_position,
                 iframe, is_video_course, func_exists>>
  /\ UNCHANGED pageVars
  /\ UNCHANGED <<starts, visited, runs, items0, clean, ok_runs>>
  /\ wifi' = "absent"
  /\ UNCHANGED <<frameVars, staleVars, func_checks, clicks>>
  /\ UNCHANGED back
  /\ UNCHANGED wait_timed_out
  /\ UNCHANGED driverVars

\* lines 629-707: a video lesson needs no start button; otherwise the four
\* ways to find and click it are tried in turn
Trigger ==
  /\ pc = "Trigger"
  /\ IF is_video_course
     THEN /\ start_btn_clicked' = TRUE
          /\ trig_failed_at' = 0
          /\ tried' = 0
          /\ triggers' = <<>>
     ELSE \E r1, r2, r3, r4 \in BOOLEAN :
            LET att == TriggerAttempts(r1, r2, r3, r4) IN
            /\ triggers' = att
            /\ tried' = Len(att)
            /\ start_btn_clicked' = att[Len(att)].ok
            /\ trig_failed_at' = IF att[Len(att)].ok THEN 0 ELSE item_position
  /\ pc' = "CheckFunc"
  /\ UNCHANGED <<module_index, total_modules, completed_count, count_elem,
                 count_text, finished, total, title_button, item_position,
                 iframe, is_video_course, func_exists>>
  /\ UNCHANGED pageVars
  /\ UNCHANGED <<starts, visited, runs, items0, clean, ok_runs>>
  /\ wifi' = "absent"
  /\ UNCHANGED <<frameVars, staleVars, func_checks, clicks>>
  /\ UNCHANGED back
  /\ UNCHANGED wait_timed_out
  /\ UNCHANGED driverVars

\* variant of the check, for comparison: the call is made even when the
\* function was absent at both checks
CheckFuncInvokeAnyway ==
  /\ pc = "CheckFunc"
  /\ \/ /\ pc' = Handler(pc)
        /\ func_exists' = FALSE
        /\ func_checks' = 0
        /\ iframe' = NoFrame
        /\ UNCHANGED <<clean, runs, items0>>
     \/ /\ func_exists' = TRUE
        /\ func_checks' \in {1, 2}
        /\ UNCHANGED iframe
        /\ pc' = "Invoke"
        /\ UNCHANGED <<clean, runs, items0>>
     \/ /\ func_exists' = FALSE
        /\ func_checks' = 2
        /\ UNCHANGED iframe
        /\ pc' = "Invoke"
        /\ Unclean
  /\ is_video_course' = FALSE
  /\ start_btn_clicked' = FALSE
  /\ UNCHANGED <<module_index, total_modules, completed_count, count_elem,
                 count_text, finished, total, title_button, item_position>>
  /\ UNCHANGED pageVars
  /\ UNCHANGED <<starts, visited, ok_runs, trig_failed_at>>
  /\ tried' = 0
  /\ UNCHANGED <<wifi, frameVars, staleVars, clicks>>
  /\ triggers' = <<>>
  /\ UNCHANGED back
  /\ UNCHANGED wait_timed_out
  /\ UNCHANGED driverVars

\* lines 709-721: is finishWxCourse a function in the frame; one more look
\* after ten seconds; neither evaluate is guarded, and when one raises the
\* run is over (its locals are dropped)
CheckFunc ==
  /\ pc = "CheckFunc"
  /\ \/ /\ pc' = Handler(pc)
        /\ func_exists' = FALSE
        /\ func_checks' = 0
        /\ iframe' = NoFrame
        /\ UNCHANGED <<clean, runs, items0>>
     \/ /\ func_exists' = TRUE
        /\ func_checks' \in {1, 2}
        /\ UNCHANGED iframe
        /\ pc' = "Invoke"
        /\ UNCHANGED <<clean, runs, items0>>
     \/ /\ func_exists' = FALSE
        /\ func_checks' = 2
        /\ UNCHANGED iframe
        /\ pc' = "DebugInfo"
        /\ Unclean
  /\ is_video_course' = FALSE
  /\ start_btn_clicked' = FALSE
  /\ UNCHANGED <<module_index, total_modules, completed_count, count_elem,
                 count_text, finished, total, title_button, item_position>>
  /\ UNCHANGED pageVars
  /\ UNCHANGED <<starts, visited, ok_runs, trig_failed_at>>
  /\ tried' = 0
  /\ UNCHANGED <<wifi, frameVars, staleVars, clicks>>
  /\ triggers' = <<>>
  /\ UNCHANGED back
  /\ UNCHANGED wait_timed_out
  /\ UNCHANGED driverVars

\* the platform's answer to a finishWxCourse() call that returned: the
\* lesson's class may or may not turn to passed
MarkPassed(its, pos, marked) ==
  IF marked THEN [its EXCEPT ![pos] = ClassPassed] ELSE its

\* lines 723-734: call finishWxCourse(); an error of the call is only logged
Invoke ==
  /\ pc = "Invoke"
  /\ \/ /\ UNCHANGED <<items, ok_runs>>
        /\ Unclean
     \/ \E marked \in BOOLEAN :
          /\ items' = MarkPassed(items, item_position, marked)
          /\ ok_runs' = ok_runs + 1
          /\ IF marked THEN UNCHANGED <<clean, runs, items0>> ELSE Unclean
  /\ pc' = "ReturnToList"
  /\ iframe' = NoFrame
  /\ item_position' = -1
  /\ func_exists' = FALSE
  /\ UNCHANGED <<module_index, total_modules, completed_count, count_elem,
                 count_text, finished, total, title_button,
                 is_video_course, start_btn_clicked>>
  /\ UNCHANGED <<view, expanded>>
  /\ UNCHANGED <<starts, visited, trig_failed_at>>
  /\ func_checks' = 0
  /\ UNCHANGED <<kindVars, frameVars, staleVars, clicks>>
  /\ UNCHANGED runVars
  /\ UNCHANGED driverVars

\* lines 735-750: the function is missing; frame details are printed, an
\* error while fetching them is swallowed
DebugInfo ==
  /\ pc = "DebugInfo"
  /\ pc' = "ReturnToList"
  /\ iframe' = NoFrame
  /\ item_position' = -1
  /\ func_exists' = FALSE
  /\ UNCHANGED <<module_index, total_modules, completed_count, count_elem,
                 count_text, finished, total, title_button,
                 is_video_course, start_btn_clicked>>
  /\ UNCHANGED <<pageVars, histVars>>
  /\ func_checks' = 0
  /\ UNCHANGED <<kindVars, frameVars, staleVars, clicks>>
  /\ UNCHANGED runVars
  /\ UNCHANGED driverVars

\* lines 761-769: what the three look-ups for a back control give: the
\* button labeled "返回列表", else a .comment-footer-button, else a nav-bar or
\* back-class element, else nothing
BackControls == {"labeled", "generic", "other", "none"}
\* the back controls met in the traversal
SampleBackControls == {"labeled", "none"}

\* lines 771-778: the control found is clicked; browser back when none was
\* found
ReturnActions(found, ok) ==
  <<[action |-> IF found = "none" THEN "go_back" ELSE "click",
     control |-> found, ok |-> ok]>>

\* lines 752-788: the look-ups, then the click or browser back; the list
\* page is rendered anew, so the module may come back collapsed; an error of
\* a look-up or of the action is caught at 817 with the lesson still open
ReturnToList(finds) ==
  /\ pc = "ReturnToList"
  /\ \/ /\ back' = <<>>
        /\ pc' = "Cooldown"
        /\ Unclean
        /\ UNCHANGED <<view, expanded, staleVars>>
     \/ \E found \in finds, ok \in BOOLEAN :
          /\ back' = ReturnActions(found, ok)
          /\ IF ok
             THEN /\ view' = "list"
                  /\ expanded' \in BOOLEAN
                  /\ module_stale' = TRUE
                  /\ title_stale' = title_button
                  /\ pc' = "Requery"
                  /\ UNCHANGED <<clean, runs, items0>>
             ELSE /\ pc' = "Cooldown"
                  /\ Unclean
                  /\ UNCHANGED <<view, expanded, staleVars>>
  /\ UNCHANGED <<module_index, total_modules, completed_count, count_elem,
                 count_text, finished, total, title_button, item_position,
                 iframe, is_video_course, start_btn_clicked, func_exists>>
  /\ UNCHANGED items
  /\ UNCHANGED <<starts, visited, ok_runs, trig_failed_at>>
  /\ UNCHANGED <<kindVars, frameVars, func_checks, clicks>>
  /\ UNCHANGED triggers
  /\ UNCHANGED wait_timed_out
  /\ UNCHANGED driverVars

\* lines 790-818: fresh listing, re-expand the module, query its lessons;
\* any error is caught at 817
Requery ==
  /\ pc = "Requery"
  /\ \/ /\ UNCHANGED <<title_button, expanded, title_stale>>
        /\ module_stale' \in {module_stale, FALSE}
     \/ /\ InRange(module_index, ListingLen)
        /\ ~expanded
        /\ title_button' = FALSE
        /\ title_stale' = FALSE
        /\ module_stale' = FALSE
        /\ UNCHANGED expanded
     \/ /\ InRange(module_index, ListingLen)
        /\ ~expanded
        /\ title_button' = TRUE
        /\ \E clicked \in BOOLEAN :
             /\ expanded' = clicked
             /\ title_stale' = clicked
             /\ module_stale' = clicked
  /\ pc' = "Cooldown"
  /\ UNCHANGED <<module_index, total_modules, completed_count, count_elem,
                 count_text, finished, total, item_position, iframe,
                 is_video_course, start_btn_clicked, func_exists>>
  /\ UNCHANGED <<view, items, histVars>>
  /\ UNCHANGED <<kindVars, frameVars, func_checks, clicks>>
  /\ UNCHANGED runVars
  /\ UNCHANGED driverVars

\* line 821: the wait between lessons; line 837: the wait of the handler
CooldownSeconds == 60
BackoffSeconds == 10
\* seconds waited by the step at position p that ends a lesson run
EndWait(p) == IF p = "Cooldown" THEN CooldownSeconds ELSE BackoffSeconds

\* lines 820-829: the wait between lessons, then the counter
Cooldown ==
  /\ pc = "Cooldown"
  /\ completed_count < MaxCount
  /\ completed_count' = completed_count + 1
  /\ pc' = "LessonLoop"
  /\ EndRun
  /\ UNCHANGED <<module_index, total_modules, count_elem, count_text,
                 finished, total, title_button>>
  /\ UNCHANGED <<pageVars, histVars>>
  /\ UNCHANGED stepVars
  /\ back' = <<>>
  /\ UNCHANGED triggers
  /\ UNCHANGED wait_timed_out
  /\ UNCHANGED driverVars

\* lines 831-839: lesson-level handler, wait and take the loop again
LessonExcept ==
  /\ pc = "LessonExcept"
  /\ pc' = "LessonLoop"
  /\ Unclean
  /\ EndRun
  /\ UNCHANGED <<module_index, total_modules, completed_count, count_elem,
                 count_text, finished, total, title_button>>
  /\ UNCHANGED pageVars
  /\ UNCHANGED <<starts, visited, ok_runs, trig_failed_at>>
  /\ func_checks' = 0
  /\ clicks' = <<>>
  /\ UNCHANGED <<kindVars, frameVars, staleVars>>
  /\ back' = <<>>
  /\ UNCHANGED triggers
  /\ UNCHANGED wait_timed_out
  /\ UNCHANGED driverVars

\* lines 841-850: click the title once more (errors swallowed), next module
Collapse ==
  /\ pc = "Collapse"
  /\ \E click \in {"skipped", "clicked", "raised"} :
       (click = "skipped") = ~title_button
  /\ module_index' = module_index + 1
  /\ EnterModule(module_index + 1)
  /\ pc' = "ModuleLoop"
  /\ UNCHANGED <<total_modules, completed_count, count_elem, count_text,
                 finished, total, title_button, item_position, iframe,
                 is_video_course, start_btn_clicked, func_exists>>
  /\ UNCHANGED <<view, visited, ok_runs>>
  /\ module_stale' = FALSE
  /\ title_stale' = FALSE
  /\ UNCHANGED <<kindVars, frameVars, func_checks, clicks>>
  /\ UNCHANGED runVars
  /\ UNCHANGED driverVars

\* ------------------------------------------------------- specifications
Next ==
  \/ ModuleLoopTest
  \/ ReadCount(ProgressTexts)
  \/ ParseCount
  \/ CheckComplete
  \/ ExpandModule
  \/ QueryLessons
  \/ ModuleExcept
  \/ LessonLoopTop
  \/ EnsureExpanded
  \/ ScanLessons
  \/ Scroll
  \/ ClickLesson
  \/ WaitDom
  \/ FindFrame({UrlPage}, SampleFrameLists)
  \/ WaitIdle
  \/ Settle
  \/ Classify
  \/ Trigger
  \/ CheckFunc
  \/ Invoke
  \/ DebugInfo
  \/ ReturnToList(SampleBackControls)
  \/ Requery
  \/ Cooldown
  \/ LessonExcept
  \/ Collapse

Spec == Init /\ [][Next]_vars

\* the script never yields control for good: an enabled step is taken
FairSpec == Spec /\ WF_vars(Next)

\* the progress parse on its own: one module, any text up to MaxTextLen
InitParse ==
  /\ pc = "ReadCount"
  /\ module_index = 0
  /\ total_modules = 1
  /\ completed_count = 0
  /\ count_elem = FALSE
  /\ count_text = <<>>
  /\ finished = 0
  /\ total = 0
  /\ title_button = FALSE
  /\ item_position = -1
  /\ iframe = NoFrame
  /\ is_video_course = FALSE
  /\ start_btn_clicked = FALSE
  /\ func_exists = FALSE
  /\ view = "list"
  /\ expanded = FALSE
  /\ items = <<>>
  /\ items0 = <<>>
  /\ runs = <<>>
  /\ starts = 1
  /\ visited = {0}
  /\ clean = TRUE
  /\ ok_runs = 0
  /\ trig_failed_at = 0
  /\ wifi = "absent"
  /\ tried = 0
  /\ frames = <<>>
  /\ page_url = <<>>
  /\ module_stale = FALSE
  /\ title_stale = FALSE
  /\ func_checks = 0
  /\ clicks = <<>>
  /\ triggers = <<>>
  /\ back = <<>>
  /\ wait_timed_out = FALSE
  /\ closes = 0
  /\ exit_way = "none"

NextParse ==
  \/ ReadCount(AllTexts)
  \/ ParseCount

ParseSpec == InitParse /\ [][NextParse]_vars

\* the frame resolution on its own: one lesson of one module is open, any
\* list of up to MaxFrames frames below the main frame
InitFrame ==
  /\ pc = "FindFrame"
  /\ module_index = 0
  /\ total_modules = 1
  /\ completed_count = 0
  /\ count_elem = FALSE
  /\ count_text = <<>>
  /\ finished = 0
  /\ total = 0
  /\ title_button = TRUE
  /\ item_position = 1
  /\ iframe = NoFrame
  /\ is_video_course = FALSE
  /\ start_btn_clicked = FALSE
  /\ func_exists = FALSE
  /\ view = "lesson"
  /\ expanded = TRUE
  /\ items = <<ClassPlain>>
  /\ items0 = <<FALSE>>
  /\ runs = <<1>>
  /\ starts = 1
  /\ visited = {0}
  /\ clean = TRUE
  /\ ok_runs = 0
  /\ trig_failed_at = 0
  /\ wifi = "absent"
  /\ tried = 0
  /\ frames = <<>>
  /\ page_url = <<>>
  /\ module_stale = TRUE
  /\ title_stale = TRUE
  /\ func_checks = 0
  /\ clicks = <<>>
  /\ triggers = <<>>
  /\ back = <<>>
  /\ wait_timed_out = FALSE
  /\ closes = 0
  /\ exit_way = "none"

NextFrame ==
  \/ FindFrame(PageUrls, FrameLists)
  \/ WaitIdle

FrameSpec == InitFrame /\ [][NextFrame]_vars

\* one lesson run on its own, from the click that opened the lesson to the
\* end of the run: any frame list, any back control
InitRun ==
  /\ pc = "WaitDom"
  /\ module_index = 0
  /\ total_modules = 1
  /\ completed_count = 0
  /\ count_elem = FALSE
  /\ count_text = <<>>
  /\ finished = 0
  /\ total = 0
  /\ title_button = TRUE
  /\ item_position = 1
  /\ iframe = NoFrame
  /\ is_video_course = FALSE
  /\ start_btn_clicked = FALSE
  /\ func_exists = FALSE
  /\ view = "lesson"
  /\ expanded = TRUE
  /\ items = <<ClassPlain>>
  /\ items0 = <<FALSE>>
  /\ runs = <<1>>
  /\ starts = 1
  /\ visited = {0}
  /\ clean = TRUE
  /\ ok_runs = 0
  /\ trig_failed_at = 0
  /\ wifi = "absent"
  /\ tried = 0
  /\ frames = <<>>
  /\ page_url = <<>>
  /\ module_stale = TRUE
  /\ title_stale = TRUE
  /\ func_checks = 0
  /\ clicks = <<Tried("click", TRUE)>>
  /\ triggers = <<>>
  /\ back = <<>>
  /\ wait_timed_out = FALSE
  /\ closes = 0
  /\ exit_way = "none"

NextRun ==
  \/ WaitDom
  \/ FindFrame(PageUrls, FrameLists)
  \/ WaitIdle
  \/ Settle
  \/ Classify
  \/ Trigger
  \/ CheckFunc
  \/ Invoke
  \/ DebugInfo
  \/ ReturnToList(BackControls)
  \/ Requery
  \/ Cooldown
  \/ LessonExcept

RunSpec == InitRun /\ [][NextRun]_vars

\* ------------------------------------------------------------ the driver
\* main() from its first statement to its last (lines 257-914) around the
\* traversal of one module with one lesson
InitDriver ==
  /\ pc = "InitBrowser"
  /\ module_index = 0
  /\ total_modules = 0
  /\ completed_count = 0
  /\ count_elem = FALSE
  /\ count_text = <<>>
  /\ finished = 0
  /\ total = 0
  /\ title_button = FALSE
  /\ item_position = -1
  /\ iframe = NoFrame
  /\ is_video_course = FALSE
  /\ start_btn_clicked = FALSE
  /\ func_exists = FALSE
  /\ view = "list"
  /\ expanded = FALSE
  /\ items = <<>>
  /\ items0 = [p \in 1..Len(items) |-> IsPassed(items[p])]
  /\ runs = [p \in 1..Len(items) |-> 0]
  /\ starts = 0
  /\ visited = {}
  /\ clean = TRUE
  /\ ok_runs = 0
  /\ trig_failed_at = 0
  /\ wifi = "absent"
  /\ tried = 0
  /\ frames = <<>>
  /\ page_url = <<>>
  /\ module_stale = FALSE
  /\ title_stale = FALSE
  /\ func_checks = 0
  /\ clicks = <<>>
  /\ triggers = <<>>
  /\ back = <<>>
  /\ wait_timed_out = FALSE
  /\ closes = 0
  /\ exit_way = "none"

\* variant of the way out, for comparison: a return leaves main() directly
ExitToSkipsFinally(way) == IF way = "return" THEN "Exited" ELSE "Finally"

\* lines 264, 903-913: the body of main() is one try statement, so a return,
\* an exception and a keyboard interrupt all pass through its finally clause
ExitTo(way) == "Finally"

\* main() is left by a return, an exception, a keyboard interrupt or its end
Leave(way) == pc' = ExitTo(way) /\ exit_way' = way
\* main() goes on with its next statement
GoOn(next) == pc' = next /\ UNCHANGED exit_way

\* line 266: the browser is launched
InitBrowser ==
  /\ pc = "InitBrowser"
  /\ \/ GoOn("Login")
     \/ Leave("raise")
  /\ UNCHANGED <<localVars, pageVars, histVars, stepVars, runVars, closes>>

\* lines 269-273: the wait for the login; the timeout returns from main()
WaitForLogin ==
  /\ pc = "Login"
  /\ \E login_success \in BOOLEAN :
       \/ IF login_success THEN GoOn("Prepare") ELSE Leave("return")
       \/ Leave("raise")
  /\ UNCHANGED <<localVars, pageVars, histVars, stepVars, runVars, closes>>

\* lines 276-312: user info, screenshot, page title, the lab picture
Prepare ==
  /\ pc = "Prepare"
  /\ \/ GoOn("CourseTitle")
     \/ Leave("raise")
  /\ UNCHANGED <<localVars, pageVars, histVars, stepVars, runVars, closes>>

\* lines 315-343: three ways to click the course title, the next one when
\* the one before raised; main() returns when all three raised
ClickCourseTitle ==
  /\ pc = "CourseTitle"
  /\ \E r1, r2, r3 \in BOOLEAN :
       IF r1 \/ r2 \/ r3 THEN GoOn("StartTraversal") ELSE Leave("return")
  /\ UNCHANGED <<localVars, pageVars, histVars, stepVars, runVars, closes>>

\* lines 346-361: the module listing is awaited and counted; an error is
\* caught by the except clause of line 864
StartTraversal(counts, lists) ==
  /\ pc = "StartTraversal"
  /\ \/ /\ pc' = "SaveState"
        /\ UNCHANGED <<total_modules, expanded, items, items0, runs>>
     \/ \E n \in counts, e \in BOOLEAN, its \in lists :
          /\ total_modules' = n
          /\ expanded' = e
          /\ items' = its
          /\ items0' = [p \in 1..Len(its) |-> IsPassed(its[p])]
          /\ runs' = [p \in 1..Len(its) |-> 0]
          /\ pc' = "ModuleLoop"
  /\ UNCHANGED <<module_index, completed_count, count_elem, count_text,
                 finished, total, title_button, item_position, iframe,
                 is_video_course, start_btn_clicked, func_exists>>
  /\ UNCHANGED <<view, starts, visited, clean, ok_runs, trig_failed_at>>
  /\ UNCHANGED <<stepVars, runVars, driverVars>>

\* lines 860-862: the module loop was left, the summary is printed
Finish ==
  /\ pc = "Done"
  /\ GoOn("SaveState")
  /\ UNCHANGED <<localVars, pageVars, histVars, stepVars, runVars, closes>>

\* line 895: the browser state is saved; errors are caught in save_state
SaveState ==
  /\ pc = "SaveState"
  /\ GoOn("Input")
  /\ UNCHANGED <<localVars, pageVars, histVars, stepVars, runVars, closes>>

\* lines 898-901: wait for the Enter key; input() returns or raises
WaitForEnter ==
  /\ pc = "Input"
  /\ \/ Leave("end")
     \/ Leave("raise")
  /\ UNCHANGED <<localVars, pageVars, histVars, stepVars, runVars, closes>>

\* line 903: Ctrl-C at any statement of the try block
Interrupt ==
  /\ pc \notin {"Finally", "Exited"}
  /\ Leave("interrupt")
  /\ UNCHANGED <<localVars, pageVars, histVars, stepVars, runVars, closes>>

\* lines 911-914, 247-254: spider.close() in the finally clause
Close ==
  /\ pc = "Finally"
  /\ closes' = closes + 1
  /\ pc' = "Exited"
  /\ UNCHANGED <<localVars, pageVars, histVars, stepVars, runVars, exit_way>>

NextDriver ==
  \/ InitBrowser
  \/ WaitForLogin
  \/ Prepare
  \/ ClickCourseTitle
  \/ StartTraversal({1}, {<<ClassPlain>>})
  \/ Next
  \/ Finish
  \/ SaveState
  \/ WaitForEnter
  \/ Interrupt
  \/ Close

DriverSpec == InitDriver /\ [][NextDriver]_vars

\* ------------------------------------------------------------- claims
AllModules == 0..(total_modules - 1)

\* the first lesson of the listing whose class does not read as passed
IsFirstUnset(pos) ==
  /\ pos \in 1..Len(items)
  /\ ~IsPassed(items[pos])
  /\ \A q \in 1..(pos - 1) : IsPassed(items[q])

\* C1 (as claimed): an error in a lesson run never ends the module early and
\* never cuts the run short: the lesson loop is left only when no lesson of
\* the module is left unset, and the run ends only after every module
\* position was begun.
C1_LessonFailureContained ==
  /\ pc = "Collapse" => FirstIncomplete(items) = 0
  /\ pc = "Done" => visited = AllModules

\* C2: an exception raised in the module loop body outside the lesson loop
\* reaches the module-level handler, which moves on to module i+1 and leaves
\* the lesson counter alone; with the module listing in place the run ends
\* only after every module position was begun.
C2_ModuleStep ==
  /\ (pc \in ModuleScope /\ pc' \in {"ModuleExcept", "LessonExcept"})
       => pc' = "ModuleExcept"
  /\ pc = "ModuleExcept"
       => /\ pc' = "ModuleLoop"
          /\ module_index' = module_index + 1
          /\ completed_count' = completed_count
C2_ModuleErrorContained ==
  /\ [][C2_ModuleStep]_vars
  /\ []((pc = "Done" /\ view = "list") => visited = AllModules)
\* module 1 is read while the text whose parse raised in module 0 is still held
C2_Witness ==
  /\ pc = "ReadCount"
  /\ module_index = 1
  /\ visited = {0, 1}
  /\ count_text = <<"1", "/", "x">>

\* C3 (as claimed): every run leaves the module loop (or, in the model,
\* meets the bound on completed_count).
C3_Terminates == <>(pc = "Done" \/ completed_count = MaxCount)

\* C4 (as claimed): no module position is begun a second time.
C4_EachModuleBegunOnce == starts <= 1

\* C5: every activation targets the first lesson of the listing whose class
\* does not read as passed, and the lesson worked on in the frame does not
\* read as passed up to the finishWxCourse() call.
C5_NoDoneLessonTouched ==
  /\ pc \in {"Scroll", "ClickLesson"} => IsFirstUnset(item_position)
  /\ pc \in {"WaitDom", "FindFrame", "WaitIdle", "Settle", "Classify",
             "Trigger", "CheckFunc", "Invoke"}
       => /\ item_position \in 1..Len(items)
          /\ ~IsPassed(items[item_position])
\* a passed lesson stands first and the second lesson is the one clicked
C5_Witness ==
  /\ pc = "ClickLesson"
  /\ item_position = 2
  /\ IsPassed(items[1])

\* C6 (as claimed): after a run in which all four start-button strategies
\* failed, the walker goes on to another lesson.
C6_MovesOn ==
  (pc = "ClickLesson" /\ trig_failed_at # 0) => item_position # trig_failed_at

\* C7: while every lesson run of the module completed its lesson, each lesson
\* was activated at most once and never one that read as passed, activations
\* follow the listing order, and when the lesson loop is left every lesson
\* reads as passed with exactly one run for each lesson that did not at first.
C7_DrainRunsEachOnce ==
  clean =>
    /\ \A p \in DOMAIN runs : runs[p] <= 1 /\ (runs[p] = 1 => ~items0[p])
    /\ pc \in {"Scroll", "ClickLesson"}
         => \A q \in DOMAIN runs : q >= item_position => runs[q] = 0
    /\ pc = "Collapse"
         => \A p \in DOMAIN runs :
              /\ IsPassed(items[p])
              /\ runs[p] = IF items0[p] THEN 0 ELSE 1
\* lesson 1 was done, lesson 2 was not: one run, on lesson 2, and drained
C7_Witness ==
  /\ pc = "Collapse"
  /\ clean
  /\ items0 = <<TRUE, FALSE>>
  /\ runs = <<0, 1>>

\* C8 (as claimed): the count reported at the end is the number of lesson
\* runs in which finishWxCourse() was present and its call returned.
C8_CountIsCompletedRuns == pc = "Done" => completed_count = ok_runs

C9_DecisionStep ==
  pc = "CheckComplete" =>
    LET drained == pc' = "ExpandModule" /\ module_index' = module_index
        skipped == /\ pc' = "ModuleLoop"
                   /\ module_index' = module_index + 1
                   /\ completed_count' = completed_count
    IN /\ total > 0 => /\ drained = (finished < total)
                       /\ skipped = (finished >= total)
       /\ total = 0 => drained
IsProgressForm(t) ==
  \E i \in 1..Len(t) :
    /\ t[i] = "/"
    /\ IsDigits(SubSeq(t, 1, i - 1))
    /\ IsDigits(SubSeq(t, i + 1, Len(t)))
SlashAt(t) == CHOOSE i \in 1..Len(t) : t[i] = "/"
RECURSIVE Horner(_, _)
Horner(acc, d) ==
  IF d = <<>> THEN acc ELSE Horner(10 * acc + DigitVal(Head(d)), Tail(d))
C10_ParseStep ==
  pc = "ParseCount" =>
    /\ IsProgressForm(count_text)
         => /\ pc' = "CheckComplete"
            /\ finished' = Horner(0, SubSeq(count_text, 1, SlashAt(count_text) - 1))
            /\ total' = Horner(0, SubSeq(count_text, SlashAt(count_text) + 1,
                                         Len(count_text)))
    /\ ((\A i \in 1..Len(count_text) : count_text[i] # "/") \/ ~count_elem)
         => /\ pc' = "CheckComplete"
            /\ finished' = 0
            /\ total' = 0
C10_ParseProgress == [][C10_ParseStep]_vars
\* "12/2" was parsed
C10_Witness ==
  /\ pc = "CheckComplete"
  /\ count_text = <<"1", "2", "/", "2">>
  /\ finished = 12
  /\ total = 2

\* C11 (as claimed): whenever the frame holds the wifi hint text the lesson
\* is classified as video (and so no start-button strategy is attempted).
C11_WifiTextMeansVideo ==
  (pc = "Trigger" /\ wifi # "absent") => is_video_course

\* C11 (amended): the lesson is classified as video only when the frame holds
\* the hint in a p.txt-des element (and the query for it returned); in a video
\* run no start-button strategy is attempted and the run goes straight to the
\* finishWxCourse check; in every other run at least one is attempted.
C11_KindStep ==
  /\ pc = "Classify" => (is_video_course' => WifiTip(wifi'))
  /\ pc = "Trigger"
       => /\ pc' = "CheckFunc"
          /\ IF is_video_course THEN tried' = 0 ELSE tried' \in 1..4
C11_VideoSkipsTrigger ==
  /\ [][C11_KindStep]_vars
  /\ []((pc = "Trigger" /\ is_video_course) => WifiTip(wifi))
  /\ [](pc = "CheckFunc" => (is_video_course = (tried = 0)))
\* a video lesson reached the completion check with no strategy attempted
C11_Witness ==
  /\ pc = "CheckFunc"
  /\ is_video_course
  /\ start_btn_clicked
  /\ tried = 0

\* C12: when some frame that is not excluded has the content domain in its
\* url, the frame chosen is the first such frame of the list, whatever frames
\* (with a /course/ path, or merely not the main frame) stand before it.
C12_DomainFrameFirst ==
  (pc = "WaitIdle" /\ \E i \in 1..Len(frames) : DomainPass(frames[i]))
    => /\ iframe.kind = "frame"
       /\ iframe.pos \in 1..Len(frames)
       /\ DomainPass(frames[iframe.pos])
       /\ \A j \in 1..(iframe.pos - 1) : ~DomainPass(frames[j])
\* the domain frame stands last, behind a /course/ frame and another frame
C12_Witness ==
  /\ pc = "WaitIdle"
  /\ frames = <<UrlPage, UrlCourse, UrlCdn, UrlMcwk>>
  /\ iframe = FrameAt(4)

\* C13 (as claimed): with no domain frame, the frame chosen is the first
\* frame, not excluded, whose url is not the page's and whose path has a
\* course segment, whatever its host.
PathHasCourse(url) ==
  \E i \in 2..Len(url) : url[i - 1] = "/" /\ url[i] = "course"
C13_Claimed(url) == ~Excluded(url) /\ url # page_url /\ PathHasCourse(url)
C13_CourseSegmentAnyHost ==
  (/\ pc = "WaitIdle"
   /\ \A i \in 1..Len(frames) : ~DomainPass(frames[i])
   /\ \E i \in 1..Len(frames) : C13_Claimed(frames[i]))
    => /\ iframe.kind = "frame"
       /\ iframe.pos \in 1..Len(frames)
       /\ C13_Claimed(frames[iframe.pos])
       /\ \A j \in 1..(iframe.pos - 1) : ~C13_Claimed(frames[j])

\* C13 (amended): with no domain frame, the frame chosen is the first frame,
\* not excluded, whose url does not contain weiban.mycourse.cn and contains
\* /course/ in any letter case, whatever other frames stand before it.
C13_Amended(url) ==
  /\ url # <<>> /\ url # UrlBlank /\ ~Contains(url, ScriptPattern)
  /\ ~Contains(url, WeibanPattern)
  /\ \E i \in 1..(Len(url) - 2) :
       url[i] = "/" /\ url[i + 1] \in {"course", "COURSE"} /\ url[i + 2] = "/"
C13_CoursePathFrame ==
  (/\ pc = "WaitIdle"
   /\ \A i \in 1..Len(frames) : ~DomainPass(frames[i])
   /\ \E i \in 1..Len(frames) : C13_Amended(frames[i]))
    => /\ iframe.kind = "frame"
       /\ iframe.pos \in 1..Len(frames)
       /\ C13_Amended(frames[iframe.pos])
       /\ \A j \in 1..(iframe.pos - 1) : ~C13_Amended(frames[j])
\* [about:blank, https://cdn.example/x, https://content.example/course/42]
\* below the main frame resolves to the last of them
C13_Witness ==
  /\ pc = "WaitIdle"
  /\ frames = <<UrlPage, UrlBlank, UrlCdn, UrlCourse>>
  /\ iframe = FrameAt(4)

\* C14 (as claimed): a lesson reads as done iff passed is one of the
\* space-separated tokens of its class: the lesson activated is the first of
\* the listing without that token.
HasPassedToken(cls) ==
  \E i \in 1..Len(cls) :
    LET j == i + Len(PassedText) - 1 IN
    /\ j <= Len(cls)
    /\ SubSeq(cls, i, j) = PassedText
    /\ (i = 1 \/ cls[i - 1] = " ")
    /\ (j = Len(cls) \/ cls[j + 1] = " ")
C14_DoneIffPassedToken ==
  pc \in {"Scroll", "ClickLesson"}
    => /\ item_position \in 1..Len(items)
       /\ ~HasPassedToken(items[item_position])
       /\ \A q \in 1..(item_position - 1) : HasPassedToken(items[q])

\* C15 (as claimed): a module whose listing holds no unset lesson, the empty
\* listing included, is left for the next module: the controller stands at
\* the loop test for such a module only before it has begun it.
C15_DrainedModuleLeft ==
  (pc = "ModuleLoop" /\ view = "list" /\ FirstIncomplete(items) = 0)
    => starts = 0

\* C16 (as claimed): a module in which a lesson run failed is not abandoned:
\* the walker leaves it for the next module only when none of its lessons is
\* left unset.
C16_FailedModuleNotAbandoned ==
  (pc = "Collapse" /\ ~clean) => FirstIncomplete(items) = 0

\* C17 (as claimed): a module or title-button handle is read or acted on
\* only when it was fetched after the last action that changed the page: the
\* module handle at the lesson query of line 410, the title button at the
\* collapse click of line 844.
C17_NoStaleHandleUsed ==
  /\ pc = "QueryLessons" => ~module_stale
  /\ (pc = "Collapse" /\ title_button) => ~title_stale

\* C18 (as claimed): the content frame is resolved only after the wait for
\* content loaded, the wait for network idle and the settle window; the
\* classification, the start-button search and the finishWxCourse call come
\* after the resolution.
C18_FrameResolvedAfterWaits ==
  /\ pc \in {"WaitDom", "FindFrame", "WaitIdle", "Settle"} => iframe = NoFrame
  /\ pc \in {"Classify", "Trigger", "CheckFunc", "Invoke"} => iframe # NoFrame

\* C19: finishWxCourse() is called only after a presence check in the frame
\* returned true, at most once in a lesson run, after one or two checks; when
\* it is absent at both checks it is not called, no lesson is marked, and the
\* run goes on to the return to the list.
C19_FuncStep ==
  /\ pc' = "Invoke" => (pc = "CheckFunc" /\ func_exists')
  /\ pc = "Invoke" => pc' = "ReturnToList"
  /\ pc = "DebugInfo"
       => (pc' = "ReturnToList" /\ items' = items /\ ok_runs' = ok_runs)
  /\ ok_runs' # ok_runs => (pc = "Invoke" /\ ok_runs' = ok_runs + 1)
C19_InvokeOnlyWhenPresent ==
  /\ [][C19_FuncStep]_vars
  /\ [](pc = "Invoke"
          => (func_exists /\ func_checks \in {1, 2} /\ iframe # NoFrame))
  /\ [](pc = "DebugInfo" => (~func_exists /\ func_checks = 2))
\* the function was absent at both checks: the call is passed over
C19_Witness ==
  /\ pc = "DebugInfo"
  /\ ~func_exists
  /\ func_checks = 2

\* C20: the lesson is scrolled into view before it is clicked; the methods
\* are tried in the order click, forced click, script click, each one only
\* after every earlier one raised and none after one succeeded; the click
\* chain ends in the lesson-level handler only when all three raised.
ClickOrder == <<"click", "force", "script">>
C20_ClickStep ==
  /\ pc' = "ClickLesson" => pc = "Scroll"
  /\ pc = "ClickLesson"
       => /\ Len(clicks') \in 1..3
          /\ \A n \in 1..Len(clicks') : clicks'[n].method = ClickOrder[n]
          /\ \A n \in 1..(Len(clicks') - 1) : ~clicks'[n].ok
          /\ pc' = IF clicks'[Len(clicks')].ok THEN "WaitDom" ELSE "LessonExcept"
          /\ ~clicks'[Len(clicks')].ok => Len(clicks') = 3
TriggerOrder ==
  <<".btn-start", "img[src*=btn-start]", ".pri-start-btn", "[class*=start]">>
C21_TriggerStep ==
  (pc = "Trigger" /\ ~is_video_course)
    => /\ Len(triggers') \in 1..4
       /\ \A n \in 1..Len(triggers') : triggers'[n].method = TriggerOrder[n]
       /\ \A n \in 1..(Len(triggers') - 1) : ~triggers'[n].ok
       /\ ~triggers'[Len(triggers')].ok => Len(triggers') = 4
       /\ start_btn_clicked' = triggers'[Len(triggers')].ok
       /\ pc' = "CheckFunc"
C21_TriggerFallbackOrder ==
  /\ [][C21_TriggerStep]_vars
  /\ [](Cardinality({n \in 1..Len(triggers) : triggers[n].ok}) <= 1)
\* all four ways failed and the run stands at the finishWxCourse check
C21_Witness ==
  /\ pc = "CheckFunc"
  /\ Len(triggers) = 4
  /\ \A n \in 1..4 : ~triggers[n].ok
  /\ ~start_btn_clicked

\* C22 (as claimed): every lesson run that opened its lesson performs exactly
\* one return action before it ends, whether it ends in the cooldown or in
\* the handler.
C22_OneReturnAction ==
  (pc = "Cooldown" \/ (pc = "LessonExcept" /\ view = "lesson"))
    => Len(back) = 1

\* C23: whether the wait for content loaded or the wait for network idle
\* returns or times out, the lesson run goes on to the same next step (the
\* frame resolution, the settle window and the classification) with nothing
\* but the logged outcome differing; it never reaches the handler from there.
C23_WaitStep ==
  /\ pc = "WaitDom"
       => /\ pc' = "FindFrame"
          /\ UNCHANGED <<module_index, total_modules, completed_count,
                         title_button, item_position, iframe, is_video_course,
                         start_btn_clicked, func_exists>>
          /\ UNCHANGED <<pageVars, histVars>>
  /\ pc = "FindFrame" => (pc' = "WaitIdle" /\ iframe' # NoFrame)
  /\ pc = "WaitIdle"
       => /\ pc' = "Settle"
          /\ UNCHANGED <<module_index, total_modules, completed_count,
                         title_button, item_position, iframe, is_video_course,
                         start_btn_clicked, func_exists>>
          /\ UNCHANGED <<pageVars, histVars>>
  /\ pc = "Settle" => pc' = "Classify"
C23_WaitTimeoutNotFatal == [][C23_WaitStep]_vars
\* the wait for network idle timed out and the run stands before the settle
\* window with its frame resolved
C23_Witness ==
  /\ pc = "Settle"
  /\ wait_timed_out
  /\ iframe # NoFrame

\* C24 (as claimed): the title of a module is clicked before the drain only
\* when the module reads collapsed, so the click of line 405, when it was
\* issued, leaves the module expanded; and the module is expanded whenever
\* its lessons are scanned for the first one not passed.
C24_ExpandOnlyWhenCollapsed ==
  /\ (pc = "QueryLessons" /\ title_button /\ title_stale) => expanded
  /\ pc = "ScanLessons" => expanded

\* C25: whatever the frame list, a frame picked by one of the three passes
\* has an address that is not empty, is not about:blank and is not a
\* javascript: pseudo-URL.
C25_NoPlaceholderFrame ==
  (pc = "WaitIdle" /\ iframe.kind = "frame")
    => /\ iframe.pos \in 1..Len(frames)
       /\ frames[iframe.pos] # <<>>
       /\ frames[iframe.pos] # <<"about:blank">>
       /\ frames[iframe.pos][1] # "javascript:"
\* an empty address and a javascript: address that names the content domain
\* stand before the content frame and are passed over
C25_Witness ==
  /\ pc = "WaitIdle"
  /\ frames = <<UrlPage, UrlEmpty, UrlScriptMcwk, UrlMcwk>>
  /\ iframe = FrameAt(4)

\* C26: when no frame of the list passes the domain test, the path test or
\* the last test, the run does not fail: the main frame is taken as the
\* content frame, the search never ends in the handler, and the run goes on
\* to the classification and the finishWxCourse steps with a frame in hand.
C26_Qualifies(url) ==
  /\ url # <<>> /\ url # UrlBlank /\ ~Contains(url, ScriptPattern)
  /\ \/ Contains(url, McwkPattern)
     \/ ~Contains(url, WeibanPattern) /\ Contains(Lower(url), CoursePattern)
     \/ url # page_url
C26_FrameStep ==
  /\ pc = "FindFrame" => pc' = "WaitIdle"
  /\ pc \in {"WaitIdle", "Settle", "Classify"} => iframe' = iframe
C26_MainFrameFallback ==
  /\ [][C26_FrameStep]_vars
  /\ []((pc = "WaitIdle" /\ \A i \in 1..Len(frames) : ~C26_Qualifies(frames[i]))
          => iframe = MainFrame)
  /\ [](pc \in {"WaitIdle", "Settle", "Classify", "Trigger", "CheckFunc",
                 "Invoke"} => iframe # NoFrame)
\* finishWxCourse is about to be called in the main frame
C26_Witness ==
  /\ pc = "Invoke"
  /\ iframe = MainFrame
  /\ func_exists

\* C27 (as claimed): every lesson run, whatever its outcome, ends with the
\* full wait between lessons: a run ends at the cooldown of line 821, or in
\* the handler with a lesson chosen, and the wait made there is the cooldown.
C27_RunEndsWithCooldown ==
  (pc = "Cooldown" \/ (pc = "LessonExcept" /\ item_position # -1))
    => EndWait(pc) = CooldownSeconds

\* C28: a module whose progress reads finished >= total with total > 0 is
\* left at once: the step that reads the test goes back to the loop test
\* with module_index one higher and completed_count as it was, and without a
\* title query, a click or a lesson query (the page and the handles are as
\* before); module_index never goes down, so the module is not met again.
C28_SkipStep ==
  /\ (pc = "CheckComplete" /\ finished >= total /\ total > 0)
       => /\ pc' = "ModuleLoop"
          /\ module_index' = module_index + 1
          /\ completed_count' = completed_count
          /\ UNCHANGED <<title_button, view, staleVars, clicks, item_position>>
  /\ module_index' >= module_index
C28_CompleteModuleSkipped ==
  /\ [][C28_SkipStep]_vars
  /\ [](pc \in {"ReadCount", "ParseCount", "CheckComplete"}
          => (~module_stale /\ view = "list"))
\* module 0 read 1/1 and was skipped: module 1 is next, nothing was clicked
C28_Witness ==
  /\ pc = "ModuleLoop"
  /\ module_index = 1
  /\ finished = 1
  /\ total = 1
  /\ completed_count = 0
  /\ ~title_button
  /\ visited = {0}

\* C29: modules[module_index] is read only when the listing just queried
\* has more than module_index entries, at the top of the module loop, at the
\* top of the lesson loop, after the re-expanding click and after the return
\* from a lesson; with a shorter listing the loop is left instead.  The
\* positions that hold a module handle are reached with module_index inside
\* the listing, and module_index stays within 0..total_modules.
C29_GuardStep ==
  /\ (pc = "ModuleLoop" /\ pc' = "ReadCount") => module_index < ListingLen
  /\ (pc = "ModuleLoop" /\ module_index >= ListingLen)
       => pc' \in {"Done", "ModuleExcept"}
  /\ (pc = "LessonLoop" /\ pc' = "EnsureExpanded") => module_index < ListingLen
  /\ (pc = "LessonLoop" /\ module_index >= ListingLen)
       => pc' \in {"Collapse", "LessonExcept"}
  /\ (pc = "EnsureExpanded" /\ pc' = "ScanLessons") => module_index < ListingLen'
  /\ (pc = "Requery" /\ (title_button' # title_button \/ expanded' # expanded))
       => module_index < ListingLen
C29_IndexGuarded ==
  /\ [][C29_GuardStep]_vars
  /\ [](module_index \in 0..total_modules)
  /\ [](pc \in {"ReadCount", "ParseCount", "CheckComplete", "ExpandModule",
                 "QueryLessons", "EnsureExpanded", "ScanLessons", "Scroll",
                 "ClickLesson"} => module_index < ListingLen)
\* the listing is gone (a lesson page is open) and the lesson loop was left
\* at its guard without reading modules[module_index]
C29_Witness ==
  /\ pc = "Collapse"
  /\ view = "lesson"
  /\ module_index >= ListingLen
  /\ module_stale

\* C30: on every way out of main() (login timeout, all course-title clicks
\* failing, an exception, a keyboard interrupt, the normal end) spider.close()
\* is called exactly once, as the last step: it is called only from the
\* finally clause, main() has exited iff it was called, every way out leads
\* to the finally clause, and no step of the traversal or of the driver
\* follows the call.
C30_ExitStep ==
  /\ pc # "Exited"
  /\ pc' = "Exited" => pc = "Finally"
  /\ exit_way' # exit_way => pc' = "Finally"
  /\ closes' # closes
       => (pc = "Finally" /\ pc' = "Exited" /\ closes' = closes + 1)
C30_ClosedOnceOnExit ==
  /\ [][C30_ExitStep]_vars
  /\ [](closes = IF pc = "Exited" THEN 1 ELSE 0)
\* main() has exited by the return that follows the login timeout
C30_Witness ==
  /\ pc = "Exited"
  /\ closes = 1
  /\ exit_way = "return"
  /\ total_modules = 0

====
